---- MODULE Spec2Model ----
(***************************************************************************)
(* Course recommender backend: the scoring pipeline                        *)
(* (course_recommender/recommender.py), the orchestrating service          *)
(* (course_recommender/services.py), and the request handler              *)
(* (course_recommender/api/recommendations.py).                            *)
(*                                                                         *)
(* Numbers.  Python floats are modelled in fixed point: TF-IDF weights and *)
(* vector entries in hundredths, cosine similarities in thousandths, the   *)
(* difficulty multiplier in tenths, so a score is in ten-thousandths.      *)
(* Text is modelled after tokenisation: a text is a sequence of tokens.    *)
(***************************************************************************)
EXTENDS Integers, Sequences, FiniteSets, TLC

VARIABLES
    catalog_db,     \* rows of the courses table (Catalog Store)
    recommender,    \* app.state.recommender: NoService or a RecommenderService
    unit,           \* direct calls of the two pipeline functions (as tests/ do)
    http,           \* the request in flight through get_recommendations
    inits           \* how many times RecommenderService.__init__ has run

vars == <<catalog_db, recommender, unit, http, inits>>

(***************************** bounds **************************************)
MaxCompleted == 2       \* longest completed_courses list
MaxTags == 1            \* longest interest_tags list
MaxTopK == 3            \* largest top_k ; the smallest is -MaxTopK
MaxRepeated == 3        \* longest completed_courses list in direct service calls

(***************************** values **************************************)
None == "<None>"
\* app.state before startup_event has set the attribute
NoService == [courses |-> <<>>]

RECURSIVE SeqsUpTo(_, _)
SeqsUpTo(S, n) ==
    IF n = 0 THEN {<<>>}
    ELSE LET shorter == SeqsUpTo(S, n - 1)
         IN  shorter \cup {Append(s, x) : s \in {t \in shorter : Len(t) = n - 1}, x \in S}

Range(s) == {s[i] : i \in 1..Len(s)}

\* Body applied to the value of e, with e computed once
With(e, Body(_)) == CHOOSE out \in {Body(x) : x \in {e}} : TRUE

RECURSIVE SumOver(_, _)
\* sum of f[x] for x in the finite set S
SumOver(f, S) ==
    IF S = {} THEN 0
    ELSE LET x == CHOOSE y \in S : TRUE IN f[x] + SumOver(f, S \ {x})

RECURSIVE SqrtIter(_, _)
SqrtIter(n, x) ==
    LET y == (x + n \div x) \div 2 IN IF y >= x THEN x ELSE SqrtIter(n, y)

\* integer square root (floor)
ISqrt(n) == IF n <= 0 THEN 0 ELSE SqrtIter(n, n)

(***************************** catalog *************************************)
Course(id, name, desc, tags, diff, prereqs) ==
    [course_id |-> id, course_name |-> name, description |-> desc, tags |-> tags,
     difficulty |-> diff, type |-> "major", prerequisites |-> prereqs]

\* the catalog of the test fixture (and of the spec's scenarios A and B)
ScenarioCatalog ==
    << Course("CS101", <<"intro", "to", "cs">>, <<"intro", "programming">>,
              <<"cs", "intro">>, 1, <<>>),
       Course("CS102", <<"data", "structures">>, <<"data", "and", "algorithms">>,
              <<"cs", "data">>, 3, <<"CS101">>),
       Course("CS201", <<"algorithms">>, <<"advanced", "algorithms">>,
              <<"cs", "algorithms">>, 4, <<"CS102">>) >>

\* a catalog with equal texts (equal scores), every difficulty band, and a
\* prerequisite that names no course of the catalog
TieCatalog ==
    << Course("MA101", <<"math">>, <<>>, <<"math">>, 2, <<>>),
       Course("MA102", <<"math">>, <<>>, <<"math">>, 5, <<>>),
       Course("CS101", <<"cs">>, <<"the", "cs">>, <<>>, 4, <<>>),
       Course("MA201", <<"math">>, <<>>, <<"cs">>, 3, <<"MA101", "UNKNOWN999">>) >>

Catalogs == {ScenarioCatalog, TieCatalog}

\* ids a student may claim to have completed: the catalog's and one unknown
CompletedPool(courses) == {courses[i].course_id : i \in 1..Len(courses)} \cup {"UNKNOWN999"}
TagPool == {"cs", "math", "quantum"}
Preferences == {None, "easy", "medium", "hard", "expert"}
TopKs == (0 - MaxTopK)..MaxTopK

(***************************** data_loading.py *****************************)
\* name, description and tags joined by whitespace
build_course_corpus(courses) ==
    [i \in 1..Len(courses) |->
        courses[i].course_name \o courses[i].description \o courses[i].tags]

\* course_id -> row index (0-based, as enumerate gives it); a later row wins
build_id_index_map(courses) ==
    [id \in {courses[i].course_id : i \in 1..Len(courses)} |->
        (CHOOSE i \in 1..Len(courses) :
            /\ courses[i].course_id = id
            /\ \A j \in 1..Len(courses) : courses[j].course_id = id => j <= i) - 1]

(***************************** features.py *********************************)
StopWords == {"to", "and", "the"}

Count(tokens, t) == Cardinality({i \in 1..Len(tokens) : tokens[i] = t})

\* smoothed inverse document frequency, ln((1+n)/(1+df)) + 1, in hundredths,
\* tabulated for corpora of up to 4 courses (a linear estimate beyond)
Idf(n, df) ==
    CASE n = df -> 100
      [] n = 2 /\ df = 1 -> 141
      [] n = 3 /\ df = 1 -> 169
      [] n = 3 /\ df = 2 -> 129
      [] n = 4 /\ df = 1 -> 192
      [] n = 4 /\ df = 2 -> 151
      [] n = 4 /\ df = 3 -> 122
      [] OTHER -> 100 + (100 * (n - df)) \div (1 + df)

\* the fitted vectorizer: vocabulary and per-term idf
Fit(corpus) ==
    LET n == Len(corpus)
        vocab == UNION {Range(corpus[i]) : i \in 1..n} \ StopWords
    IN  [vocabulary |-> vocab,
         idf |-> [t \in vocab |->
                    Idf(n, Cardinality({i \in 1..n : t \in Range(corpus[i])}))]]

NormSq(v) == SumOver([t \in DOMAIN v |-> v[t] * v[t]], DOMAIN v)
Dot(a, b) == SumOver([t \in DOMAIN a |-> a[t] * b[t]], DOMAIN a)

\* L2 row normalisation, in hundredths; a zero row stays zero
Normalize(raw) ==
    With(ISqrt(NormSq(raw)), LAMBDA norm :
        [t \in DOMAIN raw |-> IF norm = 0 THEN 0 ELSE (raw[t] * 100) \div norm])

\* tf * idf, then normalisation; out-of-vocabulary tokens are dropped
transform_text(vectorizer, tokens) ==
    With([t \in vectorizer.vocabulary |-> Count(tokens, t) * vectorizer.idf[t]],
         LAMBDA raw : Normalize(raw))

fit_transform_courses(corpus) ==
    With(Fit(corpus), LAMBDA fitted :
        [i \in 1..Len(corpus) |-> transform_text(fitted, corpus[i])])

(***************************** recommender.py ******************************)
Exc(type, site, message, ids) ==
    [type |-> type, site |-> site, message |-> message, ids |-> ids]

\* the outcome of a call: a value returned, or an exception raised
Returned(v) == [ok |-> TRUE, value |-> v]
Raised(e) == [ok |-> FALSE, exc |-> e]

\* the failure of build_student_profile_vector: no component to average
NoSignalError ==
    Exc("ValueError", "build_student_profile_vector",
        "Cannot build student profile: no completed courses or interest tags.", <<>>)

\* element-wise mean of the rows, one row per entry of the index list
MeanRows(rows) ==
    [t \in DOMAIN rows[1] |->
        SumOver([i \in 1..Len(rows) |-> rows[i][t]], 1..Len(rows)) \div Len(rows)]

RECURSIVE ValidIndicesDefaultRow(_, _)
\* mutant: id_to_index.get(cid, 0), an unknown id resolves to the first row
ValidIndicesDefaultRow(id_to_index, completed_course_ids) ==
    IF completed_course_ids = <<>> THEN <<>>
    ELSE LET cid == Head(completed_course_ids)
             rest == ValidIndicesDefaultRow(id_to_index, Tail(completed_course_ids))
         IN  IF cid \in DOMAIN id_to_index THEN <<id_to_index[cid]>> \o rest
             ELSE <<0>> \o rest

RECURSIVE ValidIndices(_, _)
\* the row index of every completed id the index map knows, in list order
ValidIndices(id_to_index, completed_course_ids) ==
    IF completed_course_ids = <<>> THEN <<>>
    ELSE LET cid == Head(completed_course_ids)
             rest == ValidIndices(id_to_index, Tail(completed_course_ids))
         IN  IF cid \in DOMAIN id_to_index THEN <<id_to_index[cid]>> \o rest ELSE rest

ProfileComponents(course_matrix, id_to_index, completed_course_ids, interest_tags, vectorizer) ==
    LET valid_completed_indices == ValidIndices(id_to_index, completed_course_ids)
        completed == IF valid_completed_indices # <<>>
                     THEN << MeanRows([i \in 1..Len(valid_completed_indices) |->
                                        course_matrix[valid_completed_indices[i] + 1]]) >>
                     ELSE <<>>
        tags == IF interest_tags # <<>>
                THEN << transform_text(vectorizer, interest_tags) >>
                ELSE <<>>
    IN  completed \o tags

\* lines 70-78: no component raises, else the mean of the components
StackMean(components) ==
    IF components = <<>> THEN Raised(NoSignalError)
    ELSE Returned(MeanRows(components))

build_student_profile_vector(course_matrix, id_to_index, completed_course_ids, interest_tags, vectorizer) ==
    With(ProfileComponents(course_matrix, id_to_index, completed_course_ids,
                           interest_tags, vectorizer),
         LAMBDA components : StackMean(components))

\* mutant: a set difference, which loses the declared order (here: reversed)
get_missing_prereqs_unordered(course, completed_course_ids) ==
    LET kept == SelectSeq(course.prerequisites,
                          LAMBDA p : p \notin Range(completed_course_ids))
    IN  [i \in 1..Len(kept) |-> kept[Len(kept) + 1 - i]]

\* prerequisites not in the completed set, in declared order
get_missing_prereqs(course, completed_course_ids) ==
    SelectSeq(course.prerequisites, LAMBDA p : p \notin Range(completed_course_ids))

\* mutant: the "medium" band ends at difficulty 3
difficulty_weight_medium_to_3(difficulty, preferred) ==
    IF preferred = None THEN 10
    ELSE IF preferred = "easy" THEN (IF difficulty <= 2 THEN 11 ELSE 9)
    ELSE IF preferred = "medium" THEN (IF 2 <= difficulty /\ difficulty < 4 THEN 11 ELSE 9)
    ELSE IF preferred = "hard" THEN (IF difficulty >= 4 THEN 11 ELSE 9)
    ELSE 10

\* mutant: "hard" boosts the courses below difficulty 4 instead
difficulty_weight_hard_inverted(difficulty, preferred) ==
    IF preferred = None THEN 10
    ELSE IF preferred = "easy" THEN (IF difficulty <= 2 THEN 11 ELSE 9)
    ELSE IF preferred = "medium" THEN (IF 2 <= difficulty /\ difficulty <= 4 THEN 11 ELSE 9)
    ELSE IF preferred = "hard" THEN (IF difficulty >= 4 THEN 9 ELSE 11)
    ELSE 10

\* the multiplier in tenths: 11 is 1.1, 9 is 0.9, 10 is 1.0
difficulty_weight(difficulty, preferred) ==
    IF preferred = None THEN 10
    ELSE IF preferred = "easy" THEN (IF difficulty <= 2 THEN 11 ELSE 9)
    ELSE IF preferred = "medium" THEN (IF 2 <= difficulty /\ difficulty <= 4 THEN 11 ELSE 9)
    ELSE IF preferred = "hard" THEN (IF difficulty >= 4 THEN 11 ELSE 9)
    ELSE 10

\* sklearn cosine_similarity of the student vector with every row, in
\* thousandths; a zero vector has similarity 0 with everything
cosine_similarity(student_vec, course_matrix) ==
    With(ISqrt(NormSq(student_vec)), LAMBDA ns :
        [i \in 1..Len(course_matrix) |->
            With(ISqrt(NormSq(course_matrix[i])), LAMBDA nc :
                IF ns = 0 \/ nc = 0 THEN 0
                ELSE (Dot(student_vec, course_matrix[i]) * 1000) \div (ns * nc))])

\* mutant: the completed-course skip is missing
IsCandidateKeepCompleted(course, completed_course_ids, allow_future_courses) ==
    allow_future_courses \/ get_missing_prereqs(course, completed_course_ids) = <<>>

\* mutant: the prerequisite skip is missing
IsCandidateNoGate(course, completed_course_ids, allow_future_courses) ==
    course.course_id \notin Range(completed_course_ids)

\* is the course emitted as a candidate (lines 151-159)
IsCandidate(course, completed_course_ids, allow_future_courses) ==
    /\ course.course_id \notin Range(completed_course_ids)
    /\ (allow_future_courses \/ get_missing_prereqs(course, completed_course_ids) = <<>>)

Candidate(course, sim, completed_course_ids, preferred_difficulty) ==
    [course_id |-> course.course_id,
     course_name |-> course.course_name,
     difficulty |-> course.difficulty,
     type |-> course.type,
     score |-> sim * difficulty_weight(course.difficulty, preferred_difficulty),
     missing_prereqs |-> get_missing_prereqs(course, completed_course_ids)]

RECURSIVE Candidates(_, _, _, _, _, _)
\* the loop over enumerate(courses), from row idx on
Candidates(courses, sims, idx, completed_course_ids, allow_future_courses, preferred_difficulty) ==
    IF idx > Len(courses) THEN <<>>
    ELSE LET rest == Candidates(courses, sims, idx + 1, completed_course_ids,
                                allow_future_courses, preferred_difficulty)
         IN  IF IsCandidate(courses[idx], completed_course_ids, allow_future_courses)
             THEN << Candidate(courses[idx], sims[idx], completed_course_ids,
                               preferred_difficulty) >> \o rest
             ELSE rest

\* mutant: a descending sort that reverses the order of equal scores
InsertDescTiesFirst(sorted, x) ==
    LET n == Cardinality({i \in 1..Len(sorted) : sorted[i].score > x.score})
    IN  SubSeq(sorted, 1, n) \o <<x>> \o SubSeq(sorted, n + 1, Len(sorted))

\* where list.sort(key=score, reverse=True) puts x in an already sorted list:
\* after every item whose score is >= x's (the sort is stable)
InsertDesc(sorted, x) ==
    LET n == Cardinality({i \in 1..Len(sorted) : sorted[i].score >= x.score})
    IN  SubSeq(sorted, 1, n) \o <<x>> \o SubSeq(sorted, n + 1, Len(sorted))

RECURSIVE SortDesc(_)
SortDesc(items) ==
    IF items = <<>> THEN <<>>
    ELSE InsertDesc(SortDesc(SubSeq(items, 1, Len(items) - 1)), items[Len(items)])

\* mutant: the slice stops one item short, items[:k - 1]
SliceToOneShort(items, k) ==
    IF k - 1 >= 0 THEN SubSeq(items, 1, IF k - 1 < Len(items) THEN k - 1 ELSE Len(items))
    ELSE SubSeq(items, 1, Len(items) + k - 1)

\* the Python slice items[:k]
SliceTo(items, k) ==
    IF k >= 0 THEN SubSeq(items, 1, IF k < Len(items) THEN k ELSE Len(items))
    ELSE SubSeq(items, 1, Len(items) + k)

recommend_courses(course_matrix, student_vec, courses, completed_course_ids, top_k, allow_future_courses, preferred_difficulty) ==
    With(cosine_similarity(student_vec, course_matrix), LAMBDA sims :
        SliceTo(SortDesc(Candidates(courses, sims, 1, completed_course_ids,
                                    allow_future_courses, preferred_difficulty)),
                top_k))

(***************************** services.py *********************************)
\* RecommenderService.__init__: everything is built from one load of the rows
RecommenderService(rows) ==
    LET corpus == build_course_corpus(rows)
    IN  [courses |-> rows,
         corpus |-> corpus,
         vectorizer |-> Fit(corpus),
         course_matrix |-> fit_transform_courses(corpus),
         id_to_index |-> build_id_index_map(rows)]

\* mutant: only the first completed id is validated
UnknownIdsFirstOnly(self, completed_courses) ==
    SelectSeq(SubSeq(completed_courses, 1, IF completed_courses = <<>> THEN 0 ELSE 1),
              LAMBDA cid : cid \notin DOMAIN self.id_to_index)

\* mutant: the validation finds nothing
UnknownIdsNone(self, completed_courses) == <<>>

\* the ids of completed_courses that the index map does not know (line 73)
UnknownIds(self, completed_courses) ==
    SelectSeq(completed_courses, LAMBDA cid : cid \notin DOMAIN self.id_to_index)

UnknownCourseError(unknown) ==
    Exc("ValueError", "RecommenderService.recommend", "Unknown completed course_ids: ", unknown)

\* exception types that numpy, scikit-learn or a malformed course dict raise
\* while scoring: ValueError (cosine_similarity's input validation: width
\* mismatch, non-finite values), TypeError (a difficulty that is no number),
\* KeyError (a course dict without course_name or type)
ScoringFaults == {"ValueError", "TypeError", "KeyError"}

\* lines 77-96 of recommend, once the profile call has returned or raised
Score(self, completed_courses, student_vec, preferred_difficulty, allow_future_courses, top_k, fault) ==
    IF ~student_vec.ok
    THEN [outcome |-> student_vec, calls |-> <<"build_student_profile_vector">>]
    ELSE IF fault # None
    THEN [outcome |-> Raised(Exc(fault, "recommend_courses", "", <<>>)),
          calls |-> <<"build_student_profile_vector", "recommend_courses">>]
    ELSE [outcome |-> Returned(recommend_courses(
                          self.course_matrix, student_vec.value, self.courses,
                          completed_courses, top_k, allow_future_courses,
                          preferred_difficulty)),
          calls |-> <<"build_student_profile_vector", "recommend_courses">>]

\* RecommenderService.recommend; fault is None or the type of the exception
\* that scoring raises.  calls lists the pipeline functions entered.
recommend(self, completed_courses, interest_tags, preferred_difficulty, allow_future_courses, top_k, fault) ==
    IF UnknownIds(self, completed_courses) # <<>>
    THEN [outcome |-> Raised(UnknownCourseError(UnknownIds(self, completed_courses))),
          calls |-> <<>>]
    ELSE With(build_student_profile_vector(
                  self.course_matrix, self.id_to_index,
                  completed_courses, interest_tags, self.vectorizer),
              LAMBDA student_vec :
                  Score(self, completed_courses, student_vec, preferred_difficulty,
                        allow_future_courses, top_k, fault))

list_courses(self) == self.courses

\* the first course with this id; KeyError when the loop finds none
get_course(self, course_id) ==
    IF \E i \in 1..Len(self.courses) : self.courses[i].course_id = course_id
    THEN Returned(self.courses[CHOOSE i \in 1..Len(self.courses) :
                      /\ self.courses[i].course_id = course_id
                      /\ \A j \in 1..(i - 1) : self.courses[j].course_id # course_id])
    ELSE Raised(Exc("KeyError", "RecommenderService.get_course", course_id, <<>>))

\* mutant: before startup the dependency hands out a service under
\* construction, its id index not yet built
get_recommender_half_built(app_state) ==
    IF app_state = NoService
    THEN Returned([RecommenderService(catalog_db) EXCEPT
                      !.id_to_index = build_id_index_map(<<>>)])
    ELSE Returned(app_state)

\* the dependency reads app.state.recommender; the attribute does not exist
\* until startup_event has assigned it
get_recommender(app_state) ==
    IF app_state = NoService
    THEN Raised(Exc("AttributeError", "get_recommender",
                    "'State' object has no attribute 'recommender'", <<>>))
    ELSE Returned(app_state)

(***************************** db_utils.py *********************************)
\* rows of the Student Profile Store; "s2" has no row
StudentProfiles ==
    [s \in {"s1", "s3"} |->
        IF s = "s1" THEN [completed_courses |-> <<"CS101">>, interest_tags |-> <<"cs">>]
        ELSE [completed_courses |-> <<>>, interest_tags |-> <<>>]]

\* student_id is Optional[str]: absent, the empty string, or an id
StudentIds == {None, "", "s1", "s2", "s3"}

\* get_student_profile_data returns None when there is no row
HasProfile(student_id) == student_id \in DOMAIN StudentProfiles

(***************************** api/recommendations.py **********************)
Requests == {"r1", "r2"}

NoExc == Exc(None, None, None, <<>>)

Idle ==
    [pc |-> "idle", req |-> None, store_consulted |-> FALSE,
     completed_courses |-> <<>>, interest_tags |-> <<>>,
     recommend_called |-> FALSE, calls |-> <<>>, exc |-> NoExc,
     status |-> 0, detail |-> <<None, <<>>>>, body |-> <<>>]

\* mutant: the lookup is decided by completed_courses alone
NeedsProfileIgnoringTags(req) ==
    /\ req.student_id \notin {None, ""}
    /\ req.completed_courses = <<>>

\* the profile store is consulted (line 39); None and "" are falsy
NeedsProfile(req) ==
    /\ req.student_id \notin {None, ""}
    /\ ~(req.completed_courses # <<>> \/ req.interest_tags # <<>>)

\* the except clause that catches an exception of this type (lines 56-70)
StatusOf(exc) == IF exc.type = "ValueError" THEN 400 ELSE 500

\* lines 48-81: the response to what rec.recommend returned or raised
Answer(answered, recs) ==
    IF ~recs.outcome.ok
    THEN [answered EXCEPT !.recommend_called = TRUE, !.calls = recs.calls,
                          !.exc = recs.outcome.exc,
                          !.status = StatusOf(recs.outcome.exc),
                          !.detail = IF StatusOf(recs.outcome.exc) = 400
                                     THEN <<recs.outcome.exc.message, recs.outcome.exc.ids>>
                                     ELSE <<"Internal server error", <<>>>>]
    ELSE [answered EXCEPT !.recommend_called = TRUE, !.calls = recs.calls,
                          !.status = 200, !.body = recs.outcome.value]

\* mutant: a missing profile is not reported, the request's own lists are used
get_recommendations_no_404(req, rec, fault) ==
    Answer([Idle EXCEPT !.pc = "done", !.req = req,
                        !.store_consulted = NeedsProfile(req),
                        !.completed_courses = req.completed_courses,
                        !.interest_tags = req.interest_tags],
           recommend(rec, req.completed_courses, req.interest_tags,
                     req.preferred_difficulty, req.allow_future_courses,
                     req.top_k, fault))

\* the whole handler, from the parsed request to the response
get_recommendations(req, rec, fault) ==
    LET lookup == NeedsProfile(req)
        completed_courses == IF lookup /\ HasProfile(req.student_id)
                             THEN StudentProfiles[req.student_id].completed_courses
                             ELSE req.completed_courses
        interest_tags == IF lookup /\ HasProfile(req.student_id)
                         THEN (IF req.interest_tags # <<>> THEN req.interest_tags
                               ELSE StudentProfiles[req.student_id].interest_tags)
                         ELSE req.interest_tags
        answered == [Idle EXCEPT !.pc = "done", !.req = req, !.store_consulted = lookup,
                                 !.completed_courses = completed_courses,
                                 !.interest_tags = interest_tags]
    IN  IF lookup /\ ~HasProfile(req.student_id)
        THEN [answered EXCEPT !.status = 404, !.detail = <<"Student profile not found", <<>>>>]
        ELSE Answer(answered,
                    recommend(rec, completed_courses, interest_tags,
                              req.preferred_difficulty, req.allow_future_courses,
                              req.top_k, fault))

\* the route: the dependencies are resolved before the handler is entered; an
\* exception of a dependency is answered by the server with status 500
Route(req, app_state, fault) ==
    With(get_recommender(app_state), LAMBDA rec :
        IF ~rec.ok
        THEN [Idle EXCEPT !.pc = "done", !.req = req, !.exc = rec.exc,
                          !.status = 500,
                          !.detail = <<"Internal Server Error", <<>>>>]
        ELSE get_recommendations(req, rec.value, fault))

(***************************** state machine *******************************)
UnitStart ==
    [pc |-> "start", completed_course_ids |-> <<>>, interest_tags |-> <<>>,
     student_vec |-> Raised(NoExc), top_k |-> 0, allow_future_courses |-> FALSE,
     preferred_difficulty |-> None, recs |-> <<>>, outcome |-> Raised(NoExc)]

\* requests the pydantic model RecommendationRequest accepts (schemas.py);
\* top_k is any integer, 5 when absent
ApiRequests(courses) ==
    [student_id : StudentIds,
     completed_courses : SeqsUpTo(CompletedPool(courses), MaxCompleted),
     interest_tags : SeqsUpTo({"cs", "quantum"}, 1),
     preferred_difficulty : {None, "hard"},
     allow_future_courses : BOOLEAN,
     top_k : {-1, 1, 5}]

\* a small pool of requests for two requests in flight at once
PairRequests ==
    [student_id : {None, "s2"},
     completed_courses : {<<>>, <<"CS101">>, <<"UNKNOWN999">>},
     interest_tags : {<<>>, <<"cs">>},
     preferred_difficulty : {None},
     allow_future_courses : {TRUE},
     top_k : {5}]

\* main.py startup_event: the service is built and installed in app.state;
\* the lifespan fires the event once
Startup ==
    /\ recommender = NoService
    /\ recommender' = RecommenderService(catalog_db)
    /\ inits' = inits + 1
    /\ UNCHANGED <<catalog_db, unit, http>>

\* a request is parsed and routed; an application driven without its
\* lifespan (a test client outside a with block) routes before startup_event
Arrive(r, pool) ==
    /\ http[r].pc = "idle"
    /\ \E req \in pool :
          http' = [http EXCEPT ![r] = [Idle EXCEPT !.pc = "pending", !.req = req]]
    /\ UNCHANGED <<catalog_db, recommender, unit, inits>>

\* mutant: the resolved inputs are kept on the shared service, so a request
\* is scored with the inputs of whichever request is in flight
HandleSharedInputs(r) ==
    /\ http[r].pc = "pending"
    /\ \E other \in Requests :
          /\ http[other].pc # "idle"
          /\ http' = [http EXCEPT ![r] =
                         [Route(http[other].req, recommender, None) EXCEPT
                             !.req = http[r].req]]
    /\ UNCHANGED <<catalog_db, recommender, unit, inits>>

\* get_recommendations runs to its response
Handle(r) ==
    /\ http[r].pc = "pending"
    /\ \E fault \in {None} \cup ScoringFaults :
          http' = [http EXCEPT ![r] = Route(http[r].req, recommender, fault)]
    /\ UNCHANGED <<catalog_db, recommender, unit, inits>>

\* the response is sent
Respond(r) ==
    /\ http[r].pc = "done"
    /\ http' = [http EXCEPT ![r] = Idle]
    /\ UNCHANGED <<catalog_db, recommender, unit, inits>>

\* a test calls build_student_profile_vector on the fixture
CallBuildProfile ==
    /\ unit.pc = "start"
    /\ \E completed \in SeqsUpTo(CompletedPool(recommender.courses), MaxCompleted),
          tags \in SeqsUpTo(TagPool, MaxTags) :
          LET vec == build_student_profile_vector(
                         recommender.course_matrix, recommender.id_to_index,
                         completed, tags, recommender.vectorizer)
          IN  unit' = [unit EXCEPT !.pc = IF vec.ok THEN "built" ELSE "raised",
                                   !.completed_course_ids = completed,
                                   !.interest_tags = tags,
                                   !.student_vec = vec]
    /\ UNCHANGED <<catalog_db, recommender, http, inits>>

\* and passes the vector on to recommend_courses
CallRecommendCourses ==
    /\ unit.pc = "built"
    /\ \E top_k \in TopKs, allow \in BOOLEAN, preferred \in Preferences :
          unit' = [unit EXCEPT !.pc = "ranked",
                               !.top_k = top_k,
                               !.allow_future_courses = allow,
                               !.preferred_difficulty = preferred,
                               !.recs = recommend_courses(
                                            recommender.course_matrix,
                                            unit.student_vec.value,
                                            recommender.courses,
                                            unit.completed_course_ids,
                                            top_k, allow, preferred)]
    /\ UNCHANGED <<catalog_db, recommender, http, inits>>

\* mutant: recommend drops the completed courses from the service's own list
CallRecommendPruning ==
    /\ unit.pc = "start"
    /\ \E completed \in SeqsUpTo(CompletedPool(recommender.courses), 1) :
          /\ unit' = [unit EXCEPT !.pc = "recommended",
                                  !.completed_course_ids = completed]
          /\ recommender' = [recommender EXCEPT !.courses =
                                SelectSeq(recommender.courses,
                                          LAMBDA c : c.course_id \notin Range(completed))]
    /\ UNCHANGED <<catalog_db, http, inits>>

\* a caller invokes RecommenderService.recommend on the service
CallRecommend ==
    /\ unit.pc = "start"
    /\ \E completed \in SeqsUpTo(CompletedPool(recommender.courses), MaxRepeated),
          tags \in {<<>>, <<"cs">>}, allow \in BOOLEAN, preferred \in {None, "hard"} :
          unit' = [unit EXCEPT !.pc = "recommended",
                               !.completed_course_ids = completed,
                               !.interest_tags = tags,
                               !.top_k = 5,
                               !.allow_future_courses = allow,
                               !.preferred_difficulty = preferred,
                               !.outcome = recommend(recommender, completed, tags,
                                                     preferred, allow, 5, None).outcome]
    /\ UNCHANGED <<catalog_db, recommender, http, inits>>

\* a caller invokes RecommenderService.list_courses
CallListCourses ==
    /\ unit.pc = "start"
    /\ unit' = [unit EXCEPT !.pc = "listed",
                            !.outcome = Returned(list_courses(recommender))]
    /\ UNCHANGED <<catalog_db, recommender, http, inits>>

\* a caller invokes RecommenderService.get_course
CallGetCourse ==
    /\ unit.pc = "start"
    /\ \E course_id \in CompletedPool(recommender.courses) :
          unit' = [unit EXCEPT !.pc = "got",
                               !.outcome = get_course(recommender, course_id)]
    /\ UNCHANGED <<catalog_db, recommender, http, inits>>

\* the next test starts
NextTest ==
    /\ unit.pc \in {"raised", "ranked", "recommended", "listed", "got"}
    /\ unit' = UnitStart
    /\ UNCHANGED <<catalog_db, recommender, http, inits>>

\* the application serving one request at a time
Init ==
    /\ catalog_db \in Catalogs
    /\ recommender = NoService
    /\ unit = UnitStart
    /\ http = [r \in Requests |-> Idle]
    /\ inits = 0

Next ==
    \/ Startup
    \/ Arrive("r1", ApiRequests(catalog_db))
    \/ Handle("r1")
    \/ Respond("r1")

Spec == Init /\ [][Next]_vars

\* the two pipeline functions called directly on a fixture
InitCore ==
    /\ catalog_db \in Catalogs
    /\ recommender = RecommenderService(catalog_db)
    /\ unit = UnitStart
    /\ http = [r \in Requests |-> Idle]
    /\ inits = 1

NextCore ==
    \/ CallBuildProfile
    \/ CallRecommendCourses
    \/ NextTest

SpecCore == InitCore /\ [][NextCore]_vars

\* the application with two requests in flight
NextPair ==
    \/ Startup
    \/ \E r \in Requests : Arrive(r, PairRequests)
    \/ \E r \in Requests : Handle(r)
    \/ \E r \in Requests : Respond(r)

SpecPair == Init /\ [][NextPair]_vars

\* the methods of an installed service called directly
NextService ==
    \/ CallRecommend
    \/ CallListCourses
    \/ CallGetCourse
    \/ NextTest

SpecService == InitCore /\ [][NextService]_vars

(***************************** properties **********************************)
Ranked == unit.pc = "ranked"

CatalogIds == {catalog_db[i].course_id : i \in 1..Len(catalog_db)}
CompletedSet == Range(unit.completed_course_ids)

\* a catalog course that is not completed and passes the prerequisite gate
Eligible(course) ==
    /\ course.course_id \notin CompletedSet
    /\ (unit.allow_future_courses \/ Range(course.prerequisites) \subseteq CompletedSet)

EligibleRows == {i \in 1..Len(catalog_db) : Eligible(catalog_db[i])}

RowOf(course_id) == CHOOSE i \in 1..Len(catalog_db) : catalog_db[i].course_id = course_id

\* C1. Exclusion: no item that recommend_courses returns has a course_id that
\* is a member of completed_course_ids.
C1_Exclusion ==
    Ranked => \A i \in 1..Len(unit.recs) : unit.recs[i].course_id \notin CompletedSet

\* a ranking that left out a completed catalog course and kept another course
C1_Witness ==
    /\ Ranked
    /\ unit.recs # <<>>
    /\ CompletedSet \cap CatalogIds # {}

\* C2. Prerequisite gating: with allow_future_courses false every returned
\* item has an empty missing_prereqs and its course declares no prerequisite
\* that is absent from completed_course_ids; with nothing completed only
\* courses without prerequisites are returned.
C2_PrereqGating ==
    (Ranked /\ ~unit.allow_future_courses) =>
        \A i \in 1..Len(unit.recs) :
            /\ unit.recs[i].missing_prereqs = <<>>
            /\ Range(catalog_db[RowOf(unit.recs[i].course_id)].prerequisites)
                   \subseteq CompletedSet
            /\ (unit.completed_course_ids = <<>> =>
                   catalog_db[RowOf(unit.recs[i].course_id)].prerequisites = <<>>)

\* a strict ranking that returned a course and dropped one with an unmet prerequisite
C2_Witness ==
    /\ Ranked
    /\ ~unit.allow_future_courses
    /\ unit.top_k >= Len(catalog_db)
    /\ unit.recs # <<>>
    /\ \E i \in 1..Len(catalog_db) :
          /\ catalog_db[i].course_id \notin CompletedSet
          /\ ~(Range(catalog_db[i].prerequisites) \subseteq CompletedSet)

\* C3. Ordering: the returned list is sorted by score descending, and items
\* of equal score keep the relative order of their courses in the catalog.
C3_Ordering ==
    Ranked =>
        \A i, j \in 1..Len(unit.recs) :
            i < j =>
                /\ unit.recs[i].score >= unit.recs[j].score
                /\ (unit.recs[i].score = unit.recs[j].score =>
                       RowOf(unit.recs[i].course_id) < RowOf(unit.recs[j].course_id))

\* a ranking with a tie between two items and a strictly lower item after them
C3_Witness ==
    /\ Ranked
    /\ \E i, j, k \in 1..Len(unit.recs) :
          /\ i < j /\ j < k
          /\ unit.recs[i].score = unit.recs[j].score
          /\ unit.recs[j].score > unit.recs[k].score
          /\ unit.recs[k].score > 0

\* C4. Top-K bound: the result is no longer than top_k and no longer than the
\* number of eligible candidates, and when top_k exceeds that number every
\* eligible candidate is returned.  (No list has a negative length: below 0
\* the cap is read as 0, the empty result that C5 requires there.)
C4_TopKBound ==
    Ranked =>
        /\ Len(unit.recs) <= (IF unit.top_k < 0 THEN 0 ELSE unit.top_k)
        /\ Len(unit.recs) <= Cardinality(EligibleRows)
        /\ (unit.top_k > Cardinality(EligibleRows) =>
               {unit.recs[i].course_id : i \in 1..Len(unit.recs)}
                   = {catalog_db[i].course_id : i \in EligibleRows})

\* C5. top_k <= 0 yields an empty sequence, whatever the number of eligible
\* candidates.
C5_NonPositiveTopKEmpty ==
    (Ranked /\ unit.top_k <= 0) => unit.recs = <<>>

\* C7. build_student_profile_vector fails, with the no-signal failure, exactly
\* when no completed id resolves in id_to_index and interest_tags is empty;
\* otherwise it returns a vector over the vocabulary, unknown ids skipped.
C7_InvalidQueryExactly ==
    (unit.pc # "start") =>
        /\ ~unit.student_vec.ok <=>
               (CompletedSet \cap CatalogIds = {} /\ unit.interest_tags = <<>>)
        /\ ~unit.student_vec.ok => unit.student_vec.exc = NoSignalError
        /\ unit.student_vec.ok =>
               DOMAIN unit.student_vec.value = recommender.vectorizer.vocabulary

\* a vector built from a list that mixes an unknown id with a known one, no tags
C7_Witness ==
    /\ unit.pc = "built"
    /\ unit.interest_tags = <<>>
    /\ CompletedSet \ CatalogIds # {}
    /\ CompletedSet \cap CatalogIds # {}

Done(r) == http[r].pc = "done"

\* the failure came from the validation in RecommenderService.recommend
FailedUnknown(r) == Done(r) /\ http[r].exc.site = "RecommenderService.recommend"

\* the failure came from build_student_profile_vector
FailedNoSignal(r) == Done(r) /\ http[r].exc.site = "build_student_profile_vector"

\* the failure came from neither
FailedInternal(r) ==
    /\ Done(r)
    /\ http[r].recommend_called
    /\ http[r].exc # NoExc
    /\ ~FailedUnknown(r)
    /\ ~FailedNoSignal(r)

\* C6. RecommenderService.recommend fails with the unknown-course failure,
\* naming exactly the ids that are not in the catalog, whenever completed_courses
\* holds such an id, whatever interest_tags is, and before the profile is built
\* or a course is scored; when every id is known it does not raise that failure.
C6_UnknownCourseFirst ==
    \A r \in Requests :
        (Done(r) /\ http[r].recommend_called) =>
            IF Range(http[r].completed_courses) \subseteq CatalogIds
            THEN ~FailedUnknown(r)
            ELSE /\ FailedUnknown(r)
                 /\ Range(http[r].exc.ids) = Range(http[r].completed_courses) \ CatalogIds
                 /\ http[r].calls = <<>>
                 /\ http[r].body = <<>>

\* unknown ids were rejected although there were no interest tags either
C6_Witness ==
    \E r \in Requests :
        /\ FailedUnknown(r)
        /\ http[r].interest_tags = <<>>
        /\ Range(http[r].completed_courses) \cap CatalogIds # {}

\* C8. The unknown-course failure and the no-profile failure are different
\* typed failures, and the request layer tells them apart.
C8_DistinguishableKinds ==
    \A r1, r2 \in Requests :
        (FailedUnknown(r1) /\ FailedNoSignal(r2)) =>
            /\ http[r1].exc.type # http[r2].exc.type
            /\ http[r1].status # http[r2].status

C10_ProfileNotFound ==
    \A r \in Requests :
        Done(r) =>
            /\ (http[r].store_consulted /\ ~HasProfile(http[r].req.student_id)) =>
                  /\ http[r].status = 404
                  /\ ~http[r].recommend_called
                  /\ http[r].calls = <<>>
                  /\ http[r].body = <<>>
            /\ FailedNoSignal(r) => http[r].status = 400

\* a request for a student without a profile has been answered
C10_Witness ==
    \E r \in Requests :
        /\ Done(r)
        /\ http[r].store_consulted
        /\ http[r].req.student_id = "s2"
        /\ http[r].status = 404

\* the handler was entered (its dependencies resolved)
Entered(r) == Done(r) /\ http[r].exc.site # "get_recommender"

\* C11. Input resolution: the profile store is consulted exactly when
\* student_id is given and the request's completed_courses and interest_tags
\* are both empty, and then both lists passed to recommend are the profile's;
\* otherwise both are the request's own.  So non-empty request tags are always
\* the tags passed on, and a non-empty request completed_courses is passed whole.
C11_InputResolution ==
    \A r \in Requests :
        Entered(r) =>
            LET req == http[r].req
                given == req.student_id \notin {None, ""}
            IN  /\ http[r].store_consulted <=>
                       (given /\ req.completed_courses = <<>> /\ req.interest_tags = <<>>)
                /\ http[r].recommend_called =>
                       /\ IF http[r].store_consulted
                          THEN /\ http[r].completed_courses =
                                      StudentProfiles[req.student_id].completed_courses
                               /\ http[r].interest_tags =
                                      StudentProfiles[req.student_id].interest_tags
                          ELSE /\ http[r].completed_courses = req.completed_courses
                               /\ http[r].interest_tags = req.interest_tags
                       /\ (req.interest_tags # <<>> =>
                              http[r].interest_tags = req.interest_tags)
                       /\ (req.completed_courses # <<>> =>
                              http[r].completed_courses = req.completed_courses)

\* a request that named only a student was answered from the stored profile
C11_Witness ==
    \E r \in Requests :
        /\ Entered(r)
        /\ http[r].store_consulted
        /\ http[r].req.student_id = "s1"
        /\ http[r].recommend_called
        /\ http[r].completed_courses = <<"CS101">>
        /\ http[r].interest_tags = <<"cs">>
        /\ http[r].status = 200

\* C12. Initialization ordering: no request is answered with results, or
\* scored at all, before RecommenderService.__init__ has completed and the
\* service is installed; the installed service is the fully built one; a
\* request routed before that is rejected without entering the handler; and
\* the service is initialised at most once.
C12_InitBeforeServing ==
    /\ inits <= 1
    /\ (recommender = NoService) <=> (inits = 0)
    /\ recommender # NoService => recommender = RecommenderService(catalog_db)
    /\ \A r \in Requests :
          Done(r) =>
              /\ (http[r].recommend_called \/ http[r].status = 200 \/ http[r].body # <<>>) =>
                    /\ inits = 1
                    /\ recommender = RecommenderService(catalog_db)
              /\ ~Entered(r) =>
                    /\ http[r].status = 500
                    /\ ~http[r].recommend_called
                    /\ ~http[r].store_consulted
                    /\ http[r].body = <<>>

\* a request routed before startup_event was rejected
C12_Witness ==
    \E r \in Requests :
        /\ Done(r)
        /\ ~Entered(r)
        /\ inits = 0
        /\ http[r].req.interest_tags # <<>>
        /\ http[r].status = 500

\* the id index sends every catalog id to the row of its course (0-based)
IdIndexMatchesCatalog(service) ==
    /\ DOMAIN service.id_to_index =
           {service.courses[i].course_id : i \in 1..Len(service.courses)}
    /\ \A i \in 1..Len(service.courses) :
           service.id_to_index[service.courses[i].course_id] = i - 1

\* C13. Frame: no call of recommend (successful or failed), list_courses or
\* get_course changes the service's catalog list, id index, course matrix or
\* fitted vectorizer, and the id index maps every catalog course_id to the row
\* of that course.
C13_ServiceFrame ==
    /\ [](/\ recommender = RecommenderService(catalog_db)
          /\ IdIndexMatchesCatalog(recommender)
          /\ \A i \in 1..Len(recommender.course_matrix) :
                 DOMAIN recommender.course_matrix[i] = recommender.vectorizer.vocabulary)
    /\ [][/\ recommender'.courses = recommender.courses
          /\ recommender'.id_to_index = recommender.id_to_index
          /\ recommender'.course_matrix = recommender.course_matrix
          /\ recommender'.vectorizer = recommender.vectorizer]_vars

\* recommend has failed on the service: no signal, or an unknown course
C13_Witness ==
    /\ unit.pc = "recommended"
    /\ ~unit.outcome.ok
    /\ unit.outcome.exc.site = "RecommenderService.recommend"
    /\ recommender = RecommenderService(catalog_db)

\* recommend was invoked for the request and ended without an internal failure
Invoked(r) == Done(r) /\ http[r].recommend_called /\ ~FailedInternal(r)

\* the response the request of slot r gets as the only request of the process
Alone(r) == Route(http[r].req, RecommenderService(catalog_db), None)

RECURSIVE Deduplicated(_)
\* the list with every repeated id removed, first occurrences kept in order
Deduplicated(ids) ==
    IF ids = <<>> THEN <<>>
    ELSE LET front == Deduplicated(SubSeq(ids, 1, Len(ids) - 1))
             last == ids[Len(ids)]
         IN  IF last \in Range(front) THEN front ELSE Append(front, last)

\* C15. Duplicate ids are idempotent: for a completed_courses list of known
\* ids, recommend ends exactly as it ends for the list with the duplicates
\* removed (same items, same scores, same order, and no failure of its own).
C15_DuplicatesIdempotent ==
    (unit.pc = "recommended" /\ CompletedSet \subseteq CatalogIds) =>
        unit.outcome = recommend(recommender, Deduplicated(unit.completed_course_ids),
                                 unit.interest_tags, unit.preferred_difficulty,
                                 unit.allow_future_courses, unit.top_k, None).outcome

\* the whole candidate ranking of the call in unit, under another preference
FullRanking(preferred) ==
    recommend_courses(recommender.course_matrix, unit.student_vec.value,
                      recommender.courses, unit.completed_course_ids,
                      Len(recommender.courses), unit.allow_future_courses, preferred)

PositionIn(items, course_id) ==
    CHOOSE i \in 1..Len(items) : items[i].course_id = course_id

\* C16. Scenario E, generalised: all else equal, an eligible course of
\* difficulty >= 4 that is ranked before a course of difficulty < 4 without a
\* preference is still ranked before it under preferred_difficulty "hard".
C16_HardNeverLowers ==
    (Ranked /\ unit.preferred_difficulty = "hard") =>
        LET base == FullRanking(None)
            hard == FullRanking("hard")
        IN  /\ SliceTo(hard, unit.top_k) = unit.recs
            /\ \A i, j \in 1..Len(base) :
                   (i < j /\ base[i].difficulty >= 4 /\ base[j].difficulty < 4) =>
                       PositionIn(hard, base[i].course_id)
                           < PositionIn(hard, base[j].course_id)

\* under "hard" a course of difficulty >= 4 has overtaken a lower one, and a
\* pair that was already in this order has kept it
C16_Witness ==
    /\ Ranked
    /\ unit.preferred_difficulty = "hard"
    /\ \E i, j \in 1..Len(unit.recs) :
          /\ i < j
          /\ unit.recs[i].difficulty >= 4
          /\ unit.recs[j].difficulty < 4
          /\ unit.recs[j].score > 0
          /\ PositionIn(FullRanking(None), unit.recs[j].course_id)
                 < PositionIn(FullRanking(None), unit.recs[i].course_id)

\* the cosine similarity of the student vector of the call in unit with a row
SimilarityOf(row) ==
    cosine_similarity(unit.student_vec.value, recommender.course_matrix)[row]

\* C17. Difficulty multiplier: the score of every returned item is its cosine
\* similarity times 1.0 without a preference, 1.1 if difficulty <= 2 else 0.9
\* for "easy", 1.1 if 2 <= difficulty <= 4 else 0.9 for "medium", 1.1 if
\* difficulty >= 4 else 0.9 for "hard" (multipliers in tenths).
C17_DifficultyMultiplier ==
    (Ranked /\ unit.preferred_difficulty \in {None, "easy", "medium", "hard"}) =>
        \A i \in 1..Len(unit.recs) :
            LET d == unit.recs[i].difficulty
                multiplier ==
                    CASE unit.preferred_difficulty = None -> 10
                      [] unit.preferred_difficulty = "easy" ->
                             IF d <= 2 THEN 11 ELSE 9
                      [] unit.preferred_difficulty = "medium" ->
                             IF 2 <= d /\ d <= 4 THEN 11 ELSE 9
                      [] unit.preferred_difficulty = "hard" ->
                             IF d >= 4 THEN 11 ELSE 9
            IN  /\ d = catalog_db[RowOf(unit.recs[i].course_id)].difficulty
                /\ unit.recs[i].score
                       = SimilarityOf(RowOf(unit.recs[i].course_id)) * multiplier

\* under "medium" a course of difficulty 4 is boosted and one of difficulty 5 is
\* not, both with a positive similarity
C17_Witness ==
    /\ Ranked
    /\ unit.preferred_difficulty = "medium"
    /\ \E i, j \in 1..Len(unit.recs) :
          /\ unit.recs[i].difficulty = 4
          /\ unit.recs[j].difficulty = 5
          /\ SimilarityOf(RowOf(unit.recs[i].course_id)) > 0
          /\ unit.recs[i].score = SimilarityOf(RowOf(unit.recs[i].course_id)) * 11
          /\ unit.recs[j].score > 0
          /\ unit.recs[j].score = SimilarityOf(RowOf(unit.recs[j].course_id)) * 9

RECURSIVE NotCompleted(_, _)
\* the declared prerequisites, one by one, without those in the completed set
NotCompleted(prerequisites, completed) ==
    IF prerequisites = <<>> THEN <<>>
    ELSE (IF Head(prerequisites) \in completed THEN <<>> ELSE <<Head(prerequisites)>>)
             \o NotCompleted(Tail(prerequisites), completed)

\* C18. missing_prereqs of every returned item is the subsequence of the
\* course's declared prerequisites that are not in completed_course_ids, in
\* declared order; an id that names no catalog course is reported like any
\* other.  With completed = [CS101] and allow_future_courses, CS102 carries []
\* and CS201 carries [CS102].
C18_MissingPrereqsExact ==
    Ranked =>
        /\ \A i \in 1..Len(unit.recs) :
               unit.recs[i].missing_prereqs =
                   NotCompleted(catalog_db[RowOf(unit.recs[i].course_id)].prerequisites,
                                CompletedSet)
        /\ (/\ catalog_db = ScenarioCatalog
            /\ unit.completed_course_ids = <<"CS101">>
            /\ unit.allow_future_courses
            /\ unit.top_k >= 2) =>
               /\ \E i \in 1..Len(unit.recs) :
                      /\ unit.recs[i].course_id = "CS102"
                      /\ unit.recs[i].missing_prereqs = <<>>
               /\ \E i \in 1..Len(unit.recs) :
                      /\ unit.recs[i].course_id = "CS201"
                      /\ unit.recs[i].missing_prereqs = <<"CS102">>

\* a course returned with two missing prerequisites in declared order, one of
\* them no catalog course
C18_Witness ==
    /\ Ranked
    /\ \E i \in 1..Len(unit.recs) :
          /\ unit.recs[i].missing_prereqs = <<"MA101", "UNKNOWN999">>
          /\ "UNKNOWN999" \notin CatalogIds

\* C19. With allow_future_courses true and top_k >= 1, recommend_courses
\* returns a non-empty list whenever some catalog course is not completed,
\* whatever the prerequisites, the preference and the scores (all-zero included).
C19_NonEmptyWhenAllowed ==
    (/\ Ranked
     /\ unit.allow_future_courses
     /\ unit.top_k >= 1
     /\ CatalogIds \ CompletedSet # {}) =>
        unit.recs # <<>>

\* a non-empty result although every score is 0, under a preference, holding
\* a course with an unmet prerequisite
C19_Witness ==
    /\ Ranked
    /\ unit.allow_future_courses
    /\ unit.top_k >= 1
    /\ unit.preferred_difficulty = "easy"
    /\ unit.recs # <<>>
    /\ \A i \in 1..Len(unit.recs) : unit.recs[i].score = 0
    /\ \E i \in 1..Len(unit.recs) : unit.recs[i].missing_prereqs # <<>>

\* the course declares a prerequisite that names no course of the catalog
Dangling(course) == ~(Range(course.prerequisites) \subseteq CatalogIds)

\* C20. Through RecommenderService.recommend with allow_future_courses false,
\* a course that declares a prerequisite absent from the catalog is never
\* returned, for any accepted request.
C20_DanglingNeverReturned ==
    \A r \in Requests :
        (Done(r) /\ http[r].status = 200 /\ ~http[r].req.allow_future_courses) =>
            \A i \in 1..Len(http[r].body) :
                ~Dangling(catalog_db[RowOf(http[r].body[i].course_id)])

\* an accepted strict request that completed the other prerequisite of the
\* dangling course and was answered with courses, uncut
C20_Witness ==
    \E r \in Requests :
        /\ Done(r)
        /\ http[r].status = 200
        /\ ~http[r].req.allow_future_courses
        /\ http[r].req.top_k = 5
        /\ \E i \in 1..Len(catalog_db) :
              /\ Dangling(catalog_db[i])
              /\ catalog_db[i].course_id \notin Range(http[r].completed_courses)
              /\ Range(catalog_db[i].prerequisites) \cap Range(http[r].completed_courses) # {}
        /\ http[r].body # <<>>
====
